---- MODULE Spec2Model ----
(***************************************************************************)
(* django-processes: the process_server management command (the polling    *)
(* loop of Command.handle) and the Process model / thread (Process.run).   *)
(*                                                                         *)
(* The database is the variable store: one row per Process record.  Every  *)
(* query of the loop builds fresh in-memory Process objects (snapshots of  *)
(* the rows), and Thread.start() on such an object gives one executor      *)
(* thread that later runs Process.run on its own in-memory copy.           *)
(*                                                                         *)
(* Spec is the whole program: the producer of rows, the loop and the       *)
(* executor threads.  SpecExec is Process.run alone: the threads the loop  *)
(* has started, run to their end with every exception the three            *)
(* overridable methods can raise.                                          *)
(***************************************************************************)
EXTENDS Integers, Sequences, FiniteSets, TLC

(* ---------------------------- bounds ----------------------------------- *)
\* most rows ever inserted into the tables
MaxRecs == 2
\* most executor threads ever started by the loop
MaxThreads == 2
\* largest value of settings.MAX_PROCESSES explored (1..MaxSetting)
MaxSetting == 2

(* ------------------------- program values ------------------------------ *)
\* Process.__subclasses__(): the concrete Process tables, in list order
subclasses == <<"ClassA", "ClassB">>

\* the table a new row goes to: rows alternate between the two tables,
\* starting with the one the loop queries last
ClassOfNew(n) == subclasses[Len(subclasses) - (n % Len(subclasses))]

\* ProcessError.debug left out by the raiser (None)
NoDebug == "<None>"

\* ProcessError(msg, debug): e.msg and e.debug, debug being None (NoDebug),
\* an empty text or a text
ProcessErrors ==
    { [kind |-> "ProcessError", msg |-> "disk full", debug |-> NoDebug],
      [kind |-> "ProcessError", msg |-> "disk full", debug |-> ""],
      [kind |-> "ProcessError", msg |-> "bad input", debug |-> "details"] }

\* exceptions that are no ProcessError; msg stands for the exception's text
OtherErrors ==
    { [kind |-> "Other", msg |-> "KeyError: x", debug |-> NoDebug],
      [kind |-> "Other", msg |-> "IOError: y", debug |-> NoDebug] }

\* no exception raised
NoExc == [kind |-> "none", msg |-> "", debug |-> NoDebug]

Exceptions == ProcessErrors \cup OtherErrors

\* what the three methods of the Process subclasses in use may raise: every
\* exception from each of them
AnyFault == [setup |-> Exceptions, run_process |-> Exceptions,
             teardown |-> Exceptions]

\* subclasses with one faulty method each: a run_process that may raise a
\* ProcessError with debug text, a setup that may raise a foreign exception,
\* a teardown that may raise a ProcessError without debug text
OneFault ==
    { [setup |-> {}, teardown |-> {}, run_process |->
          {[kind |-> "ProcessError", msg |-> "bad input", debug |-> "details"]}],
      [run_process |-> {}, teardown |-> {}, setup |->
          {[kind |-> "Other", msg |-> "KeyError: x", debug |-> NoDebug]}],
      [setup |-> {}, run_process |-> {}, teardown |->
          {[kind |-> "ProcessError", msg |-> "disk full", debug |-> NoDebug]}] }

\* traceback.print_exc(file=s); s.seek(0); s.read(): the text of the stack
\* trace of the exception being handled, which ends with the exception
print_exc(e) == "Traceback (most recent call last): " \o e.kind \o ": " \o e.msg

VARIABLES
    store,          \* the tables: sequence of rows, index = row id
    raises,         \* what setup / run_process / teardown may raise
    max_processes,  \* self.max_processes (settings.MAX_PROCESSES)
    spc,            \* position of Command.handle in its loop
    i,              \* index of the running for-loop
    processing,     \* handle's local `processing`
    to_run,         \* handle's local `to_run`
    processes,      \* handle's local `processes`: in-memory Process objects
    started,        \* row ids on which start() was called in this cycle
    threads         \* executor threads: in-memory Process object + position

vars == <<store, raises, max_processes, spc, i, processing, to_run,
          processes, started, threads>>

(* --------------------------- the Process row --------------------------- *)
\* the model fields of Process for a row not yet run.  created is the time
\* of the insert (Process.save, lines 100-102): a later insert has a later
\* time.  uuid and modified are written and never read by the loop or by
\* run, and are left out
NewRow(cls, created) ==
    [cls |-> cls, created |-> created,
     processing |-> FALSE, completed |-> FALSE, error |-> FALSE,
     error_msg |-> "", debug_msg |-> ""]

Ids == 1..Len(store)

\* an in-memory Process object built by a query: the row and its id
Obj(id) == [id |-> id, row |-> store[id]]

RECURSIVE SeqOfIds(_)
\* the ids of S in ascending order: the order a table scan returns them in
SeqOfIds(S) ==
    IF S = {} THEN <<>>
    ELSE LET m == CHOOSE x \in S : \A y \in S : x <= y
         IN <<m>> \o SeqOfIds(S \ {m})

\* a count of every row a run has ever written, Running or not
CountTouchedMutant(cls) ==
    Cardinality({id \in Ids : /\ store[id].cls = cls
                              /\ \/ store[id].processing
                                 \/ store[id].completed
                                 \/ store[id].error})

\* a count of the rows that are Running under a thread of this command only
CountProcessingMutant(cls) ==
    Cardinality({id \in Ids : /\ store[id].cls = cls
                              /\ store[id].processing
                              /\ \E t \in DOMAIN threads : threads[t].id = id})

\* pclass.objects.filter(processing=True).count()
CountProcessing(cls) ==
    Cardinality({id \in Ids : store[id].cls = cls /\ store[id].processing})

\* a filter that forgets the error flag
IsPendingMutant(row) == ~row.completed /\ ~row.processing

\* a row that filter(completed=False,processing=False,error=False) selects
IsPending(row) == ~row.completed /\ ~row.processing /\ ~row.error

\* [procs for procs in pclass.objects.filter(completed=False,
\*  processing=False,error=False)]
FilterPending(cls) ==
    LET s == SeqOfIds({id \in Ids : store[id].cls = cls /\ IsPending(store[id])})
    IN [k \in 1..Len(s) |-> Obj(s[k])]

(* ------------------------------ sorting -------------------------------- *)
\* a comparison that orders nothing
ProcessSortMutant(x, y) == 0

\* ProcessSort(x, y): cmp on the created date
ProcessSort(x, y) ==
    IF x.row.created > y.row.created THEN 1
    ELSE IF x.row.created = y.row.created THEN 0
    ELSE -1

RECURSIVE Insert(_, _)
\* x put into the sorted list s after every element not greater than it
Insert(s, x) ==
    IF s = <<>> THEN <<x>>
    ELSE IF ProcessSort(s[Len(s)], x) <= 0 THEN Append(s, x)
    ELSE Append(Insert(SubSeq(s, 1, Len(s) - 1), x), s[Len(s)])

RECURSIVE Sort(_)
\* list.sort(cmp=ProcessSort): a stable sort
Sort(s) ==
    IF s = <<>> THEN <<>>
    ELSE Insert(Sort(SubSeq(s, 1, Len(s) - 1)), s[Len(s)])

\* processes[:to_run] for to_run > 0
Slice(s, n) == SubSeq(s, 1, IF n < Len(s) THEN n ELSE Len(s))

(* ------------------------------- Init ---------------------------------- *)
\* the command has parsed its options and enters the loop; the tables are
\* empty
Init ==
    /\ store = <<>>
    /\ raises \in OneFault
    /\ max_processes \in 1..MaxSetting
    /\ spc = "count"
    /\ i = 1
    /\ processing = 0
    /\ to_run = 0
    /\ processes = <<>>
    /\ started = <<>>
    /\ threads = <<>>

(* --------------------- the producer of work items ---------------------- *)
\* some application code creates a Process subclass instance and saves it:
\* Process.save on a new object sets created to now()
AddRecord ==
    /\ Len(store) < MaxRecs
    /\ store' = Append(store, NewRow(ClassOfNew(Len(store)), Len(store) + 1))
    /\ UNCHANGED <<raises, max_processes, spc, i, processing, to_run,
                   processes, started, threads>>

(* ------------------- Command.handle: the polling loop ------------------ *)
\* lines 106-111: processing = 0 was done on entering the cycle; one pass of
\* `for pclass in subclasses: processing += ...count()`, and after the last
\* class to_run = max_processes - processing and the test to_run > 0
CountRunning ==
    /\ spc = "count"
    /\ LET p == processing + CountProcessing(subclasses[i])
       IN /\ processing' = p
          /\ IF i < Len(subclasses)
             THEN /\ i' = i + 1
                  /\ UNCHANGED <<spc, to_run>>
             ELSE /\ to_run' = max_processes - p
                  /\ i' = 1
                  /\ spc' = IF max_processes - p > 0 THEN "query" ELSE "sleep"
    /\ UNCHANGED <<store, raises, max_processes, processes, started, threads>>

\* lines 113-117: processes = [] was done on entering; one pass of
\* `for pclass in subclasses: processes.extend(..)`, and after the last
\* class processes.sort(cmp=ProcessSort) and the test len(processes) > 0
BuildQueue ==
    /\ spc = "query"
    /\ LET q == processes \o FilterPending(subclasses[i])
       IN IF i < Len(subclasses)
          THEN /\ processes' = q
               /\ i' = i + 1
               /\ UNCHANGED spc
          ELSE /\ processes' = Sort(q)
               /\ i' = 1
               /\ spc' = IF Len(q) > 0 THEN "start" ELSE "sleep"
    /\ UNCHANGED <<store, raises, max_processes, processing, to_run, started,
                   threads>>

\* the Thread made of an in-memory Process object by start(): run() has not
\* executed anything yet.  setups, runs, teardowns and saves count the
\* calls the thread has made, exc is the exception its try block raised,
\* notified the completion notifications it has sent (run sends none: it
\* has no statement that would)
NewThread(obj) ==
    [id |-> obj.id, row |-> obj.row, pc |-> "start", exc |-> NoExc,
     setups |-> 0, runs |-> 0, teardowns |-> 0, saves |-> 0,
     notified |-> <<>>]

\* lines 119-121: one pass of `for process in processes[:to_run]`:
\* process.setLogger(self.logger); process.start()
StartProcess ==
    /\ spc = "start"
    /\ Len(threads) < MaxThreads
    /\ LET batch == Slice(processes, to_run)
       IN /\ threads' = Append(threads, NewThread(batch[i]))
          /\ started' = Append(started, batch[i].id)
          /\ IF i < Len(batch)
             THEN i' = i + 1 /\ UNCHANGED spc
             ELSE i' = 1 /\ spc' = "sleep"
    /\ UNCHANGED <<store, raises, max_processes, processing, to_run, processes>>

\* line 122 and back to line 106: sleep(self.wait_time); processing = 0.
\* to_run and processes are assigned before they are read in the new cycle
\* (lines 109, 113): their old values are dead and are dropped here
Sleep ==
    /\ spc = "sleep"
    /\ spc' = "count"
    /\ i' = 1
    /\ processing' = 0
    /\ to_run' = 0
    /\ processes' = <<>>
    /\ started' = <<>>
    /\ UNCHANGED <<store, raises, max_processes, threads>>

\* an interrupt that takes the started threads down with the loop
InterruptMutant ==
    /\ spc \notin {"exited", "crashed"}
    /\ spc' = "exited"
    /\ i' = 1
    /\ processing' = 0
    /\ to_run' = 0
    /\ processes' = <<>>
    /\ started' = <<>>
    /\ threads' = <<>>
    /\ UNCHANGED <<store, raises, max_processes>>

\* lines 123-124: KeyboardInterrupt anywhere in the loop, then exit(): the
\* loop is left, its locals are gone, the started threads (no daemons) live
\* on
Interrupt ==
    /\ spc \notin {"exited", "crashed"}
    /\ spc' = "exited"
    /\ i' = 1
    /\ processing' = 0
    /\ to_run' = 0
    /\ processes' = <<>>
    /\ started' = <<>>
    /\ UNCHANGED <<store, raises, max_processes, threads>>

\* lines 108 and 115 inside the try of lines 102-124: a query of the store
\* raises (the database is unavailable).  The only except clause is for
\* KeyboardInterrupt, so the exception leaves handle: the loop is over, the
\* started threads live on
StoreFails ==
    /\ spc \in {"count", "query"}
    /\ spc' = "crashed"
    /\ i' = 1
    /\ processing' = 0
    /\ to_run' = 0
    /\ processes' = <<>>
    /\ started' = <<>>
    /\ UNCHANGED <<store, raises, max_processes, threads>>

(* ---------------------- Process.run: the executor ---------------------- *)
\* a save that writes the object over every row of the table
SaveAllMutant(st, id, row) == [k \in DOMAIN st |-> row]

\* a save that never overwrites a stored text with an empty one
SaveKeepTextMutant(st, id, row) ==
    [st EXCEPT ![id] =
        [row EXCEPT !.error_msg = IF @ = "" THEN st[id].error_msg ELSE @,
                    !.debug_msg = IF @ = "" THEN st[id].debug_msg ELSE @]]

\* Process.save on an object that has an id: models.Model.save writes every
\* field of the in-memory object to its row
Save(st, id, row) == [st EXCEPT ![id] = row]

\* line 133: self.processing = True
SetProcessing(row) == [row EXCEPT !.processing = TRUE]

\* a handler that stores no debug text
ExceptProcessErrorMutant(row, e) ==
    [row EXCEPT !.error = TRUE, !.error_msg = e.msg]

\* lines 139-150: except ProcessError, e; `if e.debug` is false for None
\* and for the empty text
ExceptProcessError(row, e) ==
    [row EXCEPT !.error = TRUE,
                !.error_msg = e.msg,
                !.debug_msg = IF e.debug # NoDebug /\ e.debug # ""
                              THEN e.debug ELSE print_exc(e)]

\* a handler that reports the exception's own text
ExceptOtherMutant(row, e) ==
    [row EXCEPT !.error = TRUE,
                !.error_msg = e.msg,
                !.debug_msg = print_exc(e)]

\* lines 151-159: except (anything else)
ExceptOther(row, e) ==
    [row EXCEPT !.error = TRUE,
                !.error_msg = "Unknown error!",
                !.debug_msg = print_exc(e)]

\* the except clause that handles e
Except(row, e) ==
    IF e.kind = "ProcessError" THEN ExceptProcessError(row, e)
    ELSE ExceptOther(row, e)

\* an else clause that sets nothing
ElseMutant(row) == row

\* lines 160-161: else: self.completed = True
Else(row) == [row EXCEPT !.completed = TRUE]

\* a finally clause that leaves the flag set
ClearProcessingMutant(row) == row

\* line 163: finally: self.processing = False
ClearProcessing(row) == [row EXCEPT !.processing = FALSE]

Tids == 1..Len(threads)

\* lines 133-134: self.processing = True; self.save()
RunBegin(t) ==
    /\ threads[t].pc = "start"
    /\ LET row == SetProcessing(threads[t].row)
       IN /\ store' = Save(store, threads[t].id, row)
          /\ threads' = [threads EXCEPT ![t].row = row,
                                        ![t].saves = @ + 1,
                                        ![t].pc = "setup"]
    /\ UNCHANGED <<raises, max_processes, spc, i, processing, to_run,
                   processes, started>>

\* a raise that reaches finally without any except clause having run
RaisedMutant(th, e) == [th EXCEPT !.exc = e, !.pc = "finally"]

\* the thread after a call in the try block raised e: the matching except
\* clause has run and control is at finally
Raised(th, e) == [th EXCEPT !.row = Except(th.row, e), !.exc = e, !.pc = "finally"]

\* line 136: self.setup() returns or raises
Setup(t) ==
    /\ threads[t].pc = "setup"
    /\ LET th == [threads[t] EXCEPT !.setups = @ + 1]
       IN \/ threads' = [threads EXCEPT ![t] = [th EXCEPT !.pc = "run_process"]]
          \/ \E e \in raises.setup :
                threads' = [threads EXCEPT ![t] = Raised(th, e)]
    /\ UNCHANGED <<store, raises, max_processes, spc, i, processing, to_run,
                   processes, started>>

\* line 137: self.run_process() returns or raises
RunProcess(t) ==
    /\ threads[t].pc = "run_process"
    /\ LET th == [threads[t] EXCEPT !.runs = @ + 1]
       IN \/ threads' = [threads EXCEPT ![t] = [th EXCEPT !.pc = "teardown"]]
          \/ \E e \in raises.run_process :
                threads' = [threads EXCEPT ![t] = Raised(th, e)]
    /\ UNCHANGED <<store, raises, max_processes, spc, i, processing, to_run,
                   processes, started>>

\* line 138: self.teardown() returns (then the else clause) or raises
Teardown(t) ==
    /\ threads[t].pc = "teardown"
    /\ LET th == [threads[t] EXCEPT !.teardowns = @ + 1]
       IN \/ threads' = [threads EXCEPT ![t] =
                            [th EXCEPT !.row = Else(th.row), !.pc = "finally"]]
          \/ \E e \in raises.teardown :
                threads' = [threads EXCEPT ![t] = Raised(th, e)]
    /\ UNCHANGED <<store, raises, max_processes, spc, i, processing, to_run,
                   processes, started>>

\* a final save that is done on the success path only
FinallyMutant(t) ==
    /\ threads[t].pc = "finally"
    /\ LET row == ClearProcessing(threads[t].row)
       IN IF threads[t].exc = NoExc
          THEN /\ store' = Save(store, threads[t].id, row)
               /\ threads' = [threads EXCEPT ![t].row = row,
                                             ![t].saves = @ + 1,
                                             ![t].pc = "done"]
          ELSE /\ store' = store
               /\ threads' = [threads EXCEPT ![t].row = row,
                                             ![t].pc = "done"]
    /\ UNCHANGED <<raises, max_processes, spc, i, processing, to_run,
                   processes, started>>

\* lines 162-164: finally: self.processing = False; self.save()
Finally(t) ==
    /\ threads[t].pc = "finally"
    /\ LET row == ClearProcessing(threads[t].row)
       IN /\ store' = Save(store, threads[t].id, row)
          /\ threads' = [threads EXCEPT ![t].row = row,
                                        ![t].saves = @ + 1,
                                        ![t].pc = "done"]
    /\ UNCHANGED <<raises, max_processes, spc, i, processing, to_run,
                   processes, started>>

Next ==
    \/ AddRecord
    \/ CountRunning
    \/ BuildQueue
    \/ StartProcess
    \/ Sleep
    \/ Interrupt
    \/ StoreFails
    \/ \E t \in Tids : RunBegin(t)
    \/ \E t \in Tids : Setup(t)
    \/ \E t \in Tids : RunProcess(t)
    \/ \E t \in Tids : Teardown(t)
    \/ \E t \in Tids : Finally(t)

Spec == Init /\ [][Next]_vars

(* ------------------------ Process.run on its own ----------------------- *)
RECURSIVE PendingRows(_)
\* the tables after n inserts and no run
PendingRows(n) ==
    IF n = 0 THEN <<>>
    ELSE Append(PendingRows(n - 1), NewRow(ClassOfNew(n - 1), n))

\* the loop was interrupted after it had called start() on objects it had
\* read as pending, oldest row first, and none of the threads has executed
\* a line of run yet; two cycles may have started the same row
InitExec ==
    /\ store = PendingRows(MaxRecs)
    /\ raises = AnyFault
    /\ max_processes = 1
    /\ spc = "exited"
    /\ i = 1
    /\ processing = 0
    /\ to_run = 0
    /\ processes = <<>>
    /\ started = <<>>
    /\ \E n \in 1..MaxThreads :
          \E ids \in [1..n -> 1..MaxRecs] :
             /\ \A j, k \in 1..n : j <= k => ids[j] <= ids[k]
             /\ threads = [k \in 1..n |->
                              NewThread([id |-> ids[k],
                                         row |-> PendingRows(MaxRecs)[ids[k]]])]

NextExec ==
    \/ \E t \in Tids : RunBegin(t)
    \/ \E t \in Tids : Setup(t)
    \/ \E t \in Tids : RunProcess(t)
    \/ \E t \in Tids : Teardown(t)
    \/ \E t \in Tids : Finally(t)

SpecExec == InitExec /\ [][NextExec]_vars

(* ============================== claims ================================= *)

\* the executor threads that were started and have not done their final
\* persist
InFlight == {t \in Tids : threads[t].pc # "done"}

\* C1 (capacity invariant): in every reachable state the number of task
\* executions in flight is at most max_processes.
C1_CapacityInvariant == Cardinality(InFlight) <= max_processes

\* C2 (at-most-one-claim): of the executor runs started on one record at
\* most one gets past the claim, that is, persists processing=True or
\* invokes setup; the others write nothing and invoke nothing.
C2_AtMostOneClaim ==
    \A t, u \in Tids :
        (t # u /\ threads[t].id = threads[u].id)
            => ~(threads[t].saves > 0 /\ threads[u].saves > 0)

\* C3 (FIFO ordering): when a cycle reaches its sleep, with R the running
\* count it read and P the records its query read as pending, it has started
\* exactly min(max(0, max_processes - R), |P|) records, all different, and
\* every started record is older than every record of P it left out.
C3_FifoBatch ==
    spc = "sleep" =>
        LET P == {processes[k].id : k \in 1..Len(processes)}
            B == {started[k] : k \in 1..Len(started)}
            cap == IF max_processes - processing > 0
                   THEN max_processes - processing ELSE 0
            N == IF cap < Cardinality(P) THEN cap ELSE Cardinality(P)
        IN /\ Len(started) = N
           /\ Cardinality(B) = N
           /\ B \subseteq P
           /\ \A b \in B : \A q \in P \ B : store[b].created < store[q].created

\* a cycle that read two pending records, one from each table, and had room
\* for one: it started one and left the other
C3_Witness ==
    /\ spc = "sleep"
    /\ Len(processes) = 2
    /\ processes[1].row.cls # processes[2].row.cls
    /\ Len(started) = 1

\* C7 (terminal states are absorbing): once a row is persisted Completed or
\* Failed, no later step changes its status flags.
C7_TerminalAbsorbing ==
    [][\A id \in Ids :
          (store[id].completed \/ store[id].error)
              => /\ store'[id].completed = store[id].completed
                 /\ store'[id].error = store[id].error
                 /\ store'[id].processing = store[id].processing]_vars

\* C8 (status mutual exclusion): in every persisted state of every row at
\* most one of the flags processing, completed, error is true.
C8_StatusExclusive ==
    \A id \in Ids :
        /\ ~(store[id].processing /\ store[id].completed)
        /\ ~(store[id].processing /\ store[id].error)
        /\ ~(store[id].completed /\ store[id].error)

\* two runs of one row: one has finished and persisted its outcome, the
\* other has persisted processing=True and holds error and processing both
\* true in memory, about to do its final persist
C8_Witness ==
    \E t, u \in Tids :
        /\ t # u
        /\ threads[t].id = threads[u].id
        /\ threads[t].pc = "done"
        /\ threads[u].pc = "finally"
        /\ threads[u].row.error
        /\ threads[u].row.processing
        /\ store[threads[u].id].processing

(* ------------------- claims about Process.run alone -------------------- *)

\* the step in which thread t does its final persist (lines 163-164)
FinalPersist(t) == threads[t].pc = "finally" /\ threads'[t].pc = "done"

\* C4 (terminal convergence of status): the final persist of every run,
\* whatever raised or did not raise in its try block, leaves the row with
\* processing cleared and exactly one of completed and error set.
C4_TerminalConvergence ==
    [][\A t \in Tids :
          FinalPersist(t)
              => LET r == store'[threads[t].id]
                 IN /\ ~r.processing
                    /\ r.completed # r.error]_vars

\* one run ended after setup raised and another after everything succeeded;
\* the rows they ran on are persisted Failed and Completed
C4_Witness ==
    \E t, u \in Tids :
        /\ threads[t].id # threads[u].id
        /\ threads[t].pc = "done" /\ threads[u].pc = "done"
        /\ threads[t].exc # NoExc /\ threads[t].runs = 0
        /\ threads[u].exc = NoExc
        /\ store[threads[t].id].error /\ ~store[threads[t].id].processing
        /\ store[threads[u].id].completed /\ ~store[threads[u].id].processing

\* C5 (unconditional teardown): every run that reached setup and has left
\* its try block has invoked teardown exactly once.
C5_UnconditionalTeardown ==
    \A t \in Tids :
        (threads[t].setups > 0 /\ threads[t].pc \in {"finally", "done"})
            => threads[t].teardowns = 1

C9_RecognizedFailure ==
    [][\A t \in Tids :
          (FinalPersist(t) /\ threads[t].teardowns = 0
             /\ threads[t].exc.kind = "ProcessError")
              => LET r == store'[threads[t].id]
                     e == threads[t].exc
                 IN /\ r.error /\ ~r.completed
                    /\ r.error_msg = e.msg
                    /\ e.debug \notin {NoDebug, ""} => r.debug_msg = e.debug
                    /\ e.debug \in {NoDebug, ""} => r.debug_msg = print_exc(e)]_vars

\* one run ended after run_process raised a ProcessError without debug and
\* another after setup raised one with debug; the rows hold the message and
\* the stack trace, and the message and the debug text
C9_Witness ==
    \E t, u \in Tids :
        /\ threads[t].id # threads[u].id
        /\ threads[t].pc = "done" /\ threads[u].pc = "done"
        /\ threads[t].exc.kind = "ProcessError" /\ threads[t].exc.debug = NoDebug
        /\ threads[t].runs = 1 /\ threads[t].teardowns = 0
        /\ threads[u].exc.kind = "ProcessError" /\ threads[u].exc.debug = "details"
        /\ threads[u].runs = 0
        /\ store[threads[t].id].error_msg = "disk full"
        /\ store[threads[t].id].debug_msg = print_exc(threads[t].exc)
        /\ store[threads[u].id].error_msg = "bad input"
        /\ store[threads[u].id].debug_msg = "details"

\* C10 (unrecognized failure): when setup or run_process raises an exception
\* that is no ProcessError, the final persist leaves the row Failed and not
\* Completed with error_msg = "Unknown error!", whatever the exception's
\* text, and debug_msg = the stack trace.
C10_UnrecognizedFailure ==
    [][\A t \in Tids :
          (FinalPersist(t) /\ threads[t].teardowns = 0
             /\ threads[t].exc.kind = "Other")
              => LET r == store'[threads[t].id]
                     e == threads[t].exc
                 IN /\ r.error /\ ~r.completed
                    /\ r.error_msg = "Unknown error!"
                    /\ r.debug_msg = print_exc(e)]_vars

\* two runs ended after foreign exceptions with different texts, one raised
\* by setup and one by run_process; both rows hold the same error_msg and
\* different stack traces
C10_Witness ==
    \E t, u \in Tids :
        /\ threads[t].id # threads[u].id
        /\ threads[t].pc = "done" /\ threads[u].pc = "done"
        /\ threads[t].exc.kind = "Other" /\ threads[u].exc.kind = "Other"
        /\ threads[t].exc.msg # threads[u].exc.msg
        /\ threads[t].runs = 0 /\ threads[u].runs = 1
        /\ threads[t].teardowns = 0 /\ threads[u].teardowns = 0
        /\ store[threads[t].id].error_msg = store[threads[u].id].error_msg
        /\ store[threads[t].id].debug_msg # store[threads[u].id].debug_msg
        /\ store[threads[t].id].error /\ store[threads[u].id].error

(* ------------------ claims about the loop and the runs ----------------- *)

\* the loop's position and locals
loop == <<spc, i, processing, to_run, processes, started>>

\* the step in which a call of thread t's try block raises
Faults(t) == threads[t].exc = NoExc /\ threads'[t].exc # NoExc

\* C11 (failure containment): a step in which setup, run_process or teardown
\* of a run raises, and the final persist of a run that raised, leave the
\* loop where it is (it is not stopped), every other thread as it is and
\* every row other than the run's own as it is; the raising step itself
\* writes no row at all.
C11_FailureContainment ==
    [][\A t \in Tids :
          /\ Faults(t)
                => /\ loop' = loop
                   /\ store' = store
                   /\ \A u \in Tids \ {t} : threads'[u] = threads[u]
          /\ (FinalPersist(t) /\ threads[t].exc # NoExc)
                => /\ loop' = loop
                   /\ \A id \in Ids \ {threads[t].id} : store'[id] = store[id]
                   /\ \A u \in Tids \ {t} : threads'[u] = threads[u]]_vars

\* a run has raised and persisted Failed; the loop is alive and has started
\* a run on another row, which is pending or has run to Completed
C11_Witness ==
    \E t, u \in Tids :
        /\ threads[t].id # threads[u].id
        /\ threads[t].pc = "done" /\ threads[t].exc # NoExc
        /\ store[threads[t].id].error
        /\ threads[u].exc = NoExc
        /\ threads[u].pc = "done" /\ store[threads[u].id].completed
        /\ ~store[threads[u].id].error
        /\ spc \notin {"exited", "crashed"}

\* C12 (completion notification): every run that has ended has emitted
\* exactly one completion notification, with the row's id and its outcome.
C12_CompletionNotification ==
    \A t \in Tids :
        threads[t].pc = "done"
            => /\ Len(threads[t].notified) = 1
               /\ threads[t].notified[1].id = threads[t].id
               /\ threads[t].notified[1].outcome \in {"Completed", "Failed"}

\* C13 (store unavailability): the loop is never ended by a store query
\* that fails: handle is never left through the query's exception.
C13_StoreFailureSurvived == spc # "crashed"

\* C14 (interrupt): the step that takes the KeyboardInterrupt leaves every
\* row and every started thread as they are, and once the loop has exited
\* no thread is started any more and the loop stays exited.
C14_Interrupt ==
    [][/\ (spc # "exited" /\ spc' = "exited")
             => store' = store /\ threads' = threads
       /\ spc = "exited"
             => spc' = "exited" /\ Len(threads') = Len(threads)]_vars

\* the loop has exited, a pending row is left waiting, and a run the loop
\* had started is in flight inside its try block
C14_Witness ==
    /\ spc = "exited"
    /\ \E id \in Ids : IsPending(store[id])
    /\ \E t \in Tids :
          /\ threads[t].pc \in {"setup", "run_process", "teardown", "finally"}
          /\ store[threads[t].id].processing

\* the threads started by cycles before the running one
EarlierThreads == 1..(Len(threads) - Len(started))

\* C15 (idempotent re-poll): while none of the executions dispatched so far
\* has finished and every row of the store was already dispatched by an
\* earlier cycle (so no row was added since the previous cycle), the loop
\* starts no thread, whatever step the dispatched threads have reached.
C15_IdempotentRepoll ==
    [][(/\ Tids # {}
        /\ \A t \in Tids : threads[t].pc # "done"
        /\ \A id \in Ids : \E t \in EarlierThreads : threads[t].id = id)
          => Len(threads') = Len(threads)]_vars

\* C16 (exactly one final persist): the step that leaves finally does one
\* save, which writes the status flags and error_msg and debug_msg of the
\* in-memory object to the run's row; no step of the try block and no step
\* after the end of the run saves.
C16_OneFinalPersist ==
    [][\A t \in Tids :
          /\ FinalPersist(t)
                => LET r == store'[threads[t].id]
                       m == threads[t].row
                   IN /\ threads'[t].saves = threads[t].saves + 1
                      /\ r.processing = FALSE
                      /\ r.completed = m.completed /\ r.error = m.error
                      /\ r.error_msg = m.error_msg
                      /\ r.debug_msg = m.debug_msg
          /\ threads[t].pc \in {"setup", "run_process", "teardown", "done"}
                => threads'[t].saves = threads[t].saves]_vars

\* three exit paths have been taken to the end: a run that succeeded and a
\* run in which a foreign exception was raised have ended with two saves
\* each, the first of run and the final one
C16_Witness ==
    \E t, u \in Tids :
        /\ threads[t].pc = "done" /\ threads[u].pc = "done"
        /\ threads[t].exc = NoExc /\ threads[u].exc.kind = "Other"
        /\ threads[t].saves = 2 /\ threads[u].saves = 2

\* C17 (error fields follow status): in every persisted state of every row
\* error_msg and debug_msg are empty unless the error flag is set.
C17_ErrorFieldsFollowStatus ==
    \A id \in Ids :
        ~store[id].error
            => store[id].error_msg = "" /\ store[id].debug_msg = ""

\* two runs of one row overwrite each other: one has ended Failed, and the
\* save of the other, made from its older copy, has put the row back to
\* Running with empty error fields
C17_Witness ==
    \E t, u \in Tids :
        /\ t # u
        /\ threads[t].id = threads[u].id
        /\ threads[t].pc = "done" /\ threads[t].exc # NoExc
        /\ threads[u].pc \in {"setup", "run_process", "teardown"}
        /\ store[threads[u].id].processing
        /\ ~store[threads[u].id].error
        /\ store[threads[u].id].error_msg = ""

\* the row ids of a list of in-memory objects
IdsOf(objs) == {objs[k].id : k \in 1..Len(objs)}

\* C18 (only pending records are dispatched): every record a query adds to
\* the cycle's list has processing, completed and error all false in the
\* store at that query; every thread is started on a record of the list,
\* with the three flags false in its object; and a row that has one of the
\* flags set never has all three false again, so no later query selects it.
C18_OnlyPendingDispatched ==
    [][/\ \A id \in IdsOf(processes') \ IdsOf(processes) :
             /\ store[id].processing = FALSE
             /\ store[id].completed = FALSE
             /\ store[id].error = FALSE
       /\ Len(threads') > Len(threads)
             => LET th == threads'[Len(threads')]
                IN /\ th.id \in IdsOf(processes)
                   /\ ~th.row.processing /\ ~th.row.completed /\ ~th.row.error
       /\ \A id \in Ids :
             (store[id].processing \/ store[id].completed \/ store[id].error)
                => (store'[id].processing \/ store'[id].completed
                       \/ store'[id].error)]_vars

\* a cycle has built its list while one row was Failed and another pending:
\* the list holds the pending row and not the failed one
C18_Witness ==
    /\ spc \in {"start", "sleep"}
    /\ to_run > 0
    /\ \E id \in Ids :
          /\ store[id].error
          /\ \E t \in EarlierThreads : threads[t].id = id /\ threads[t].pc = "done"
          /\ id \notin IdsOf(processes)
    /\ processes # <<>>

(* ------------------- the loop that is left to cycle -------------------- *)
\* run has returned and the Thread object of a finished execution is gone
Reap(t) ==
    /\ threads[t].pc = "done"
    /\ threads' = SubSeq(threads, 1, t - 1)
                     \o SubSeq(threads, t + 1, Len(threads))
    /\ UNCHANGED <<store, raises, max_processes, spc, i, processing, to_run,
                   processes, started>>

\* one step of the while loop of handle
LoopStep == CountRunning \/ BuildQueue \/ StartProcess \/ Sleep

\* one step of run in some started thread
ThreadStep ==
    \E t \in Tids :
        RunBegin(t) \/ Setup(t) \/ RunProcess(t) \/ Teardown(t) \/ Finally(t)

\* no interrupt and no store failure
NextLive ==
    \/ AddRecord
    \/ CountRunning
    \/ BuildQueue
    \/ StartProcess
    \/ Sleep
    \/ \E t \in Tids : RunBegin(t)
    \/ \E t \in Tids : Setup(t)
    \/ \E t \in Tids : RunProcess(t)
    \/ \E t \in Tids : Teardown(t)
    \/ \E t \in Tids : Finally(t)
    \/ \E t \in Tids : Reap(t)

\* the loop keeps cycling (sleep returns, the queries return), the
\* interpreter keeps scheduling the started threads, whose work functions
\* return or raise, and a thread whose run has returned ends
SpecLive ==
    /\ Init
    /\ [][NextLive]_vars
    /\ WF_vars(LoopStep)
    /\ WF_vars(ThreadStep)
    /\ WF_vars(\E t \in Tids : Reap(t))

\* C19 (no starvation): when the loop keeps cycling and every started run
\* goes on to its end, every record that waits as Pending with no thread is
\* eventually dispatched (gets a thread), and every record that is added is
\* eventually persisted as Completed or Failed.
C19_NoStarvation ==
    \A id \in 1..MaxRecs :
        /\ (id \in Ids /\ (\A t \in Tids : threads[t].id # id)
                       /\ ~store[id].processing /\ ~store[id].completed
                       /\ ~store[id].error)
              ~> (\E t \in Tids : threads[t].id = id)
        /\ (id \in Ids)
              ~> (id \in Ids /\ (store[id].completed \/ store[id].error))

\* with room for one execution at a time, every record that could be added
\* was added, all of them have been run to a persisted outcome, the youngest
\* one included, and the threads have ended
C19_Witness ==
    /\ max_processes = 1
    /\ Len(store) = MaxRecs
    /\ \A id \in Ids :
          /\ ~store[id].processing
          /\ store[id].completed \/ store[id].error
    /\ threads = <<>>

(* ------------- rows left Running by an earlier instance ---------------- *)
\* a row of a run that died with its command: the first save of run was
\* made, the final one was not
RunningRow(cls, created) == [NewRow(cls, created) EXCEPT !.processing = TRUE]

\* the command is started on tables in which an earlier instance has left
\* some rows Running; none of its threads is alive
InitOrphan ==
    /\ \E k \in 1..MaxRecs :
          store = [id \in 1..k |-> RunningRow(ClassOfNew(id - 1), id)]
    /\ raises \in OneFault
    /\ max_processes \in 1..MaxSetting
    /\ spc = "count"
    /\ i = 1
    /\ processing = 0
    /\ to_run = 0
    /\ processes = <<>>
    /\ started = <<>>
    /\ threads = <<>>

SpecOrphan == InitOrphan /\ [][Next]_vars

\* a row that is persisted as Running and that no thread executes
Orphan(id) == store[id].processing /\ \A t \in Tids : threads[t].id # id

Orphans == {id \in Ids : Orphan(id)}

\* C20 (orphaned Running records): no step of the loop writes to the store;
\* a row that is Running with no thread alive for it keeps its persisted
\* state and stays without a thread; the count a cycle ends with is at least
\* the number of such rows; and while at least max_processes of them exist
\* no thread is started.
C20_OrphanedRunning ==
    [][/\ loop' # loop => store' = store
       /\ \A id \in Orphans : store'[id] = store[id] /\ id \in Orphans'
       /\ (spc = "count" /\ spc' \in {"query", "sleep"})
             => processing' >= Cardinality(Orphans)
       /\ Cardinality(Orphans) >= max_processes
             => Len(threads') = Len(threads)]_vars

\* a cycle has ended without a query although a pending record waits: the
\* count reached max_processes on the rows left Running alone
C20_Witness ==
    /\ spc = "sleep"
    /\ threads = <<>>
    /\ Cardinality(Orphans) >= max_processes
    /\ processing >= max_processes
    /\ \E id \in Ids :
          ~store[id].processing /\ ~store[id].completed /\ ~store[id].error

====
